---- MODULE Spec2Model ----
(***************************************************************************)
(* The webhook notification dispatcher of the GitHub connector sample      *)
(* (M365AppConfigService.processRequest), the token validator it calls     *)
(* (isTokenValid / getKey) and the connection registry client it drives    *)
(* (SearchConnectorService: getConnectionsAsync, createConnectionAsync,    *)
(* deleteConnectionAsync, registerSchemaAsync and the operation poller).   *)
(*                                                                         *)
(* Node runs one handler at a time and switches only at an await, so an    *)
(* action is the piece of processRequest that runs from one await to the   *)
(* next.  The loop over the notifications is cut once more at the head of  *)
(* each iteration (pc = "loop"); that piece reads and writes nothing       *)
(* shared, so the cut adds no behaviour of the registry.  A request's      *)
(* notifications are drawn when the loop reaches them: nothing reads       *)
(* element i of the body before that.                                      *)
(***************************************************************************)
EXTENDS Integers, Sequences, FiniteSets, TLC

\* ------------------------------------------------------------------ bounds
\* concurrently processed requests (Express serves them interleaved at awaits)
NumRequests == 2
\* notifications in one batch (changeNotifications.value.length)
MaxBatch == 2
\* validation tokens in one batch (changeNotifications.validationTokens.length)
MaxTokens == 2
\* reads of a schema operation that are counted
MaxPolls == 3

Requests == 1..NumRequests

\* ----------------------------------------------------------------- strings
\* A JavaScript value that is absent.
Undefined == "<undefined>"

\* if (x): a string is truthy when it is present and not empty
Truthy(x) == x # Undefined /\ x # ""

UpperChars == <<"A","B","C","D","E","F","G","H","I","J","K","L","M",
                "N","O","P","Q","R","S","T","U","V","W","X","Y","Z">>
LowerChars == <<"a","b","c","d","e","f","g","h","i","j","k","l","m",
                "n","o","p","q","r","s","t","u","v","w","x","y","z">>

\* One character of String.prototype.toLowerCase.
toLowerChar(c) ==
  IF \E i \in 1..Len(UpperChars) : UpperChars[i] = c
    THEN LowerChars[CHOOSE i \in 1..Len(UpperChars) : UpperChars[i] = c]
    ELSE c

\* String.prototype.toLowerCase on a string held as its sequence of characters.
toLowerCase(s) == [i \in 1..Len(s) |-> toLowerChar(s[i])]

\* '#microsoft.graph.connector', the literal the dispatcher compares with
ConnectorType ==
  <<"#","m","i","c","r","o","s","o","f","t",".","g","r","a","p","h",".",
    "c","o","n","n","e","c","t","o","r">>

\* the same tag as Microsoft Graph may spell it
ConnectorTypeMixedCase ==
  <<"#","M","i","c","r","o","s","o","f","t",".","G","r","a","p","h",".",
    "C","o","n","n","e","c","t","o","r">>

\* a payload type the dispatcher does not know
OtherType ==
  <<"#","m","i","c","r","o","s","o","f","t",".","g","r","a","p","h",".",
    "u","s","e","r">>

\* String.prototype.split('/') : the segments between the slashes
RECURSIVE splitFrom(_, _, _)
splitFrom(s, i, cur) ==
  IF i > Len(s) THEN <<cur>>
  ELSE IF s[i] = "/" THEN <<cur>> \o splitFrom(s, i + 1, <<>>)
  ELSE splitFrom(s, i + 1, Append(cur, s[i]))

split(s) == splitFrom(s, 1, <<>>)

\* ------------------------------------------------------------ app settings
ClientId == "client-id"
TenantId == "tenant-id"

\* `https://login.microsoftonline.com/${tenantId}/v2.0`
IssuerV2(tenant) == <<"https://login.microsoftonline.com/", tenant, "/v2.0">>
\* `https://sts.windows.net/${tenantId}/`
IssuerSts(tenant) == <<"https://sts.windows.net/", tenant, "/">>

\* the options handed to verify
VerifyOptions ==
  [audience |-> {ClientId},
   issuer   |-> {IssuerV2(TenantId), IssuerSts(TenantId)}]

\* -------------------------------------------------------- token validator
\* The keys the identity platform publishes; a key set rotates, so a kid a
\* token names may be gone.
PublishedKids == {"k1", "k2"}

\* A signed token as verify sees it: whether it parses, the kid of its
\* header, the key that really signed it, and its claims.
Tokens ==
  [wellFormed : BOOLEAN,
   kid        : {"k1", "k2", "k-rotated"},
   signedBy   : {"k1", "k2", "forged"},
   expired    : BOOLEAN,
   aud        : {ClientId, "other-app"},
   iss        : {IssuerV2(TenantId), IssuerSts(TenantId),
                 IssuerV2("other-tenant")}]

\* The remote key set answers, or cannot be reached.
KeySetStates == {"reachable", "unreachable"}

\* getKey without its try/catch: a failed fetch never reaches the callback.
getKeyUncaught(header, keySet) ==
  IF keySet = "reachable" /\ header.kid \in PublishedKids
    THEN [called |-> TRUE, error |-> FALSE, key |-> header.kid]
    ELSE [called |-> FALSE, error |-> FALSE, key |-> Undefined]

\* getKey: fetch the signing key of header.kid; a failed fetch is caught and
\* handed to the callback as an error.
getKey(header, keySet) ==
  IF keySet = "reachable" /\ header.kid \in PublishedKids
    THEN [called |-> TRUE, error |-> FALSE, key |-> header.kid]
    ELSE [called |-> TRUE, error |-> TRUE, key |-> Undefined]

\* jsonwebtoken's verify(token, getKey, options, callback): what it hands to
\* the callback: "error", "ok", or "none" when the key callback never came.
verify(token, keySet, options) ==
  IF ~token.wellFormed THEN "error"
  ELSE LET k == getKey([kid |-> token.kid], keySet) IN
    IF ~k.called THEN "none"
    ELSE IF k.error THEN "error"
    ELSE IF token.signedBy # k.key THEN "error"
    ELSE IF token.expired THEN "error"
    ELSE IF token.aud \notin options.audience THEN "error"
    ELSE IF token.iss \notin options.issuer THEN "error"
    ELSE "ok"

\* isTokenValid: the promise resolves false on an error, true otherwise. The
\* value is the promise's state: "true", "false", or "pending" when verify
\* never calls back.
isTokenValid(token, keySet) ==
  LET outcome == verify(token, keySet, VerifyOptions) IN
    IF outcome = "none" THEN "pending"
    ELSE IF outcome = "error" THEN "false"
    ELSE "true"

\* x && y on validation results
And(x, y) == IF x = "true" THEN y ELSE x

\* x || y on validation results
Or(x, y) == IF x = "true" THEN x ELSE y

\* reduce((x, y) => x || y)
RECURSIVE reduceOr(_)
reduceOr(results) ==
  IF Len(results) = 1 THEN results[1]
  ELSE Or(reduceOr(SubSeq(results, 1, Len(results) - 1)), results[Len(results)])

\* validationResults.reduce((x, y) => x && y), no initial value: the fold
\* starts from the first element (a non-empty array is the caller's guard).
RECURSIVE reduce(_)
reduce(results) ==
  IF Len(results) = 1 THEN results[1]
  ELSE And(reduce(SubSeq(results, 1, Len(results) - 1)), results[Len(results)])

\* ------------------------------------------------------ connection registry
\* The identifier and the fixed texts the dispatcher creates its connection
\* with, and the schema it registers.
DispatcherConnectionId == "GitHubIssuesM365"
DispatcherConnectionName == "GitHub Issues for M365 App"
DispatcherDescription == "This connector was created by an M365 app"
issuesSchema == "issuesSchema"
reposSchema == "reposSchema"

\* An ExternalConnection of the registry: its identifier, its connector
\* identity (Undefined unless created with a ticket) and the schema
\* registered on it.
Connection(id, connectorId, schema) ==
  [id |-> id, connectorId |-> connectorId, schema |-> schema]

\* "no connection": the undefined of existingConnection
NoConnection == Connection(Undefined, Undefined, Undefined)

\* A connection an operator made with the interactive menu (no ticket, so no
\* connector identity), present in the registry before the listener starts.
InteractiveConnections == {Connection("conn42", Undefined, "none")}

Ids(connections) == {c.id : c \in connections}

\* createConnectionAsync with the identity and the ticket each sent when it
\* is given, whatever the other.
createConnectionAsyncUnpaired(connectionId, name, itemType, description, connectorTicket, connectorId) ==
  [body   |-> Connection(connectionId,
                IF Truthy(connectorId) THEN connectorId ELSE Undefined, "none"),
   ticket |-> IF Truthy(connectorTicket) THEN connectorTicket ELSE Undefined]

\* createConnectionAsync: the record it posts and the ticket header it sets.
\* The connector identity and the ticket go out only when both are given.
createConnectionAsync(connectionId, name, itemType, description, connectorTicket, connectorId) ==
  LET pair == Truthy(connectorTicket) /\ Truthy(connectorId) IN
    [body   |-> Connection(connectionId,
                           IF pair THEN connectorId ELSE Undefined, "none"),
     ticket |-> IF pair THEN connectorTicket ELSE Undefined]

\* getConnectionsAsync: one GET of /external/connections; the caller reads
\* the value of that one response. The registry answers with everything it
\* holds, or with a first page of it and a link to the rest.
getConnectionsAsync(connections) ==
  {page \in SUBSET connections : page = {} => connections = {}}

\* The search comparing the connection's own identifier, not its connectorId.
searchById(allConnections, connectorId) ==
  LET matches == {c \in allConnections : c.id = connectorId} IN
    IF matches = {} THEN {NoConnection} ELSE matches

\* The loop over allConnections.value: the first connection whose connectorId
\* === connectorData.id (undefined === undefined counts); the registry's order
\* decides among several; NoConnection when none matches.
search(allConnections, connectorId) ==
  LET matches == {c \in allConnections : c.connectorId = connectorId} IN
    IF matches = {} THEN {NoConnection} ELSE matches

\* ------------------------------------------------------------ notifications
\* resourceData['@odata.type'] absent
NoType == <<"<undefined>">>

\* One element of changeNotifications.value: resourceData (or none) with its
\* '@odata.type', id, state and connectorsTicket, each possibly absent.
Notification(hasData, type, id, state, ticket) ==
  [hasResourceData |-> hasData, odataType |-> type, id |-> id,
   state |-> state, connectorsTicket |-> ticket]

NoNotification == Notification(FALSE, NoType, Undefined, Undefined, Undefined)

ConnectorIds == {"C1", "C2"}
Tickets == {"T1"}
States == {"enabled", "disabled"}
\* states the connector documentation does not define, and no state at all
OtherStates == {"Enabled", "paused", Undefined}

\* The notifications a batch is drawn from: connector payloads in either
\* spelling of the tag, with or without ticket and identity, payloads of
\* another type, payloads with no type, and notifications with no payload.
Notifications ==
  {Notification(TRUE, t, i, s, k) :
     t \in {ConnectorType, ConnectorTypeMixedCase}, i \in ConnectorIds,
     s \in States, k \in Tickets}
  \cup {Notification(TRUE, ConnectorType, i, s, k) :
     i \in {"C1", Undefined}, s \in States, k \in {"T1", Undefined}}
  \cup {Notification(TRUE, ConnectorType, i, s, "T1") :
     i \in ConnectorIds, s \in OtherStates}
  \cup {Notification(TRUE, t, "C1", "enabled", "T1") : t \in {OtherType, NoType}}
  \cup {NoNotification}

\* Connector lifecycle notifications as Microsoft Graph sends them: the tag,
\* an identity, a state and a ticket.
LifecycleNotifications ==
  {Notification(TRUE, ConnectorType, i, s, k) :
     i \in ConnectorIds, s \in States, k \in Tickets}

\* ------------------------------------------------------------- request body
\* What express.json() makes of the body: text that is no JSON, or an object
\* whose `value` is absent, an array of n notifications or an object that is
\* no array, and whose `validationTokens` is absent, an array of n tokens or
\* a string.
Shape(kind, n) == [kind |-> kind, n |-> n]

ValueShapes ==
  {Shape("absent", 0), Shape("object", 0)}
  \cup {Shape("array", n) : n \in 0..MaxBatch}

TokensShapes ==
  {Shape("absent", 0), Shape("string", 0)}
  \cup {Shape("array", n) : n \in 0..MaxTokens}

Bodies ==
  {[json |-> "malformed", value |-> Shape("absent", 0),
    validationTokens |-> Shape("absent", 0)]}
  \cup [json : {"parsed"}, value : ValueShapes, validationTokens : TokensShapes]

\* ------------------------------------------------------------------- state
\* A call of the dispatcher to the connection registry client, with its
\* arguments and how it ended ("pending" while awaited).
Call(op, id, ticket, connectorId, schema) ==
  [op |-> op, id |-> id, connectorsTicket |-> ticket,
   connectorId |-> connectorId, schema |-> schema, result |-> "pending"]

ListCall == Call("getConnectionsAsync", Undefined, Undefined, Undefined, Undefined)
CreateCall(id, ticket, connectorId) ==
  Call("createConnectionAsync", id, ticket, connectorId, Undefined)
RegisterCall(id, schema) ==
  Call("registerSchemaAsync", id, Undefined, Undefined, schema)
DeleteCall(id) ==
  Call("deleteConnectionAsync", id, Undefined, Undefined, Undefined)

\* A request slot before a request arrives.
Idle ==
  [pc               |-> "idle",
   status           |-> <<>>,           \* status codes sent, in order
   value            |-> Shape("absent", 0),
   validationTokens |-> Shape("absent", 0),
   validationResults|-> <<>>,           \* one promise state per token
   remaining        |-> 0,              \* notifications the loop has not reached
   notification     |-> NoNotification, \* the notification of this iteration
   allConnections   |-> {},             \* the list this iteration read
   listed           |-> FALSE,          \* whether this iteration read a list
   existingConnection |-> NoConnection,
   calls            |-> <<>>,           \* this iteration's calls to the client
   operationId      |-> <<>>,           \* the operation being polled
   response         |-> <<>>,           \* the answer to the schema POST, once had
   reads            |-> 0,              \* reads of the operation issued
   waits            |-> 0,              \* non-terminal statuses read
   readPath         |-> <<>>,           \* the operation the last read named
   operation        |-> <<>>,           \* the answer to the last read, once had
   caught           |-> "none",         \* what this iteration's catch logged
   earlier          |-> {},             \* the enables that created, once over
   error            |-> "none"]         \* what the handler's promise rejected with

\* ------------------------------------------------------ the registry client
\* A request of SearchConnectorService to the registry: the method, the
\* connection it names, the body posted and the GraphConnectors-Ticket header.
Request(method, id, body, ticket) ==
  [method |-> method, id |-> id, body |-> body, ticket |-> ticket]

NoRequest == Request("none", Undefined, NoConnection, Undefined)

\* The POST createConnectionAsync sends.
createRequest(connectionId, connectorTicket, connectorId) ==
  LET post == createConnectionAsync(connectionId, "name", "Issues",
                                    Undefined, connectorTicket, connectorId)
  IN Request("POST", connectionId, post.body, post.ticket)

\* deleteConnectionAsync sending its DELETE whatever the identifier.
deleteConnectionAsyncUnguarded(connectionId) ==
  Request("DELETE", connectionId, NoConnection, Undefined)

\* deleteConnectionAsync: if (connectionId) the DELETE of that connection,
\* otherwise nothing is sent and the promise resolves.
deleteConnectionAsync(connectionId) ==
  IF Truthy(connectionId)
    THEN Request("DELETE", connectionId, NoConnection, Undefined)
    ELSE NoRequest

\* One call of a caller (the menu, the dispatcher) to the client, on its own:
\* the method, its arguments, how far it got and the request it sent.
ClientCall(op, connectionId, connectorTicket, connectorId) ==
  [op |-> op, connectionId |-> connectionId,
   connectorTicket |-> connectorTicket, connectorId |-> connectorId,
   pc |-> "called", request |-> NoRequest]

\* the client not called on its own
NoClientCall ==
  [ClientCall("none", Undefined, Undefined, Undefined) EXCEPT !.pc = "unused"]

\* The calls checked: creates with every combination of an absent, empty or
\* given ticket and identity, deletes with an absent, empty or given id.
ClientCalls ==
  {ClientCall("createConnectionAsync", i, k, c) :
     i \in {DispatcherConnectionId, "conn42"},
     k \in {Undefined, "", "T1"}, c \in {Undefined, "", "C1"}}
  \cup {ClientCall("deleteConnectionAsync", i, Undefined, Undefined) :
     i \in {Undefined, "", DispatcherConnectionId, "conn42"}}

VARIABLES
  req,        \* req[r]: the request being processed in slot r
  registry,   \* the ExternalConnections of the remote registry
  validated,  \* the token validator applied to one token: input and outcome
  workload,   \* what the notifier sends: "any" or "lifecycle"
  client,     \* one call to the registry client on its own
  main        \* the process: its environment and how far main() got

vars == <<req, registry, validated, workload, client, main>>

\* The traffic the listener is checked under. "any": one request at a time,
\* with any body. "lifecycle": NumRequests requests in flight at once, each a
\* batch of one connector notification with one token.
Slots(w) == IF w = "any" THEN {1} ELSE Requests

BodiesOf(w) ==
  IF w = "any" THEN Bodies
  ELSE {[json |-> "parsed", value |-> Shape("array", 1),
         validationTokens |-> Shape("array", 1)]}

NotificationsOf(w) ==
  IF w = "any" THEN Notifications ELSE LifecycleNotifications

\* the validator not in use
NotValidating ==
  [token |-> CHOOSE t \in Tokens : TRUE, keySet |-> "reachable",
   outcome |-> "unused"]

\* --------------------------------------------------------------------- main
\* The environment variables main() reads.
Settings ==
  {"TENANT_ID", "CLIENT_ID", "CLIENT_SECRET", "GITHUB_REPO_OWNER",
   "GITHUB_REPO", "GITHUB_TOKEN", "PLACEHOLDER_USER_ID", "PORT_NUMBER"}

\* new SearchConnectorService(options): the error it throws, or "none".
\* `env` is the set of variables that have a (non-empty) value.
SearchConnectorServiceConstructor(env) ==
  IF ~({"TENANT_ID", "CLIENT_ID", "CLIENT_SECRET"} \subseteq env)
    THEN "Invalid app registration details, please see README"
  ELSE IF ~({"GITHUB_REPO_OWNER", "GITHUB_REPO"} \subseteq env)
    THEN "Invalid GitHub details, please see README"
  ELSE IF "PLACEHOLDER_USER_ID" \notin env
    THEN "Missing placeholder user ID, please see README"
  ELSE "none"

\* new RepositoryService(options)
RepositoryServiceConstructor(env) ==
  IF ~({"GITHUB_TOKEN", "GITHUB_REPO_OWNER", "GITHUB_REPO"} \subseteq env)
    THEN "Invalid GitHub details, please see README"
  ELSE "none"

\* The M365AppConfigService constructor testing the port as well.
M365AppConfigServiceConstructorStrict(env) ==
  IF ~({"TENANT_ID", "CLIENT_ID", "PORT_NUMBER"} \subseteq env)
    THEN "Invalid app registration details, please see README"
  ELSE "none"

\* new M365AppConfigService(connectorService, options): the port is not
\* among the options it tests.
M365AppConfigServiceConstructor(env) ==
  IF ~({"TENANT_ID", "CLIENT_ID"} \subseteq env)
    THEN "Invalid app registration details, please see README"
  ELSE "none"

\* parseInt(process.env.PORT_NUMBER ?? '5001')
port(env) == IF "PORT_NUMBER" \in env THEN "$PORT_NUMBER" ELSE "5001"

\* The locals of runInteractivelyAsync before its first prompt, with what
\* the last turn of its loop did.
MenuStart ==
  [choice            |-> "Invalid",
   currentConnection |-> NoConnection,
   selected          |-> NoConnection,  \* currentConnection when choice was made
   confirmed         |-> "none",        \* the answer to keyInYNStrict
   calls             |-> <<>>,          \* this turn's calls to the client
   caught            |-> "none"]        \* what this turn's catch logged

\* The process at the start of main(), and once main() has the listener
\* listening with every setting given.
Process(env, simplifiedAdmin) ==
  [env |-> env, simplifiedAdmin |-> simplifiedAdmin, pc |-> "main",
   constructed |-> {}, port |-> "none", error |-> "none", menu |-> MenuStart]

Listening ==
  [Process(Settings, TRUE) EXCEPT
     !.pc = "listening", !.port = port(Settings),
     !.constructed = {"SearchConnectorService", "RepositoryService",
                      "M365AppConfigService"}]

Init ==
  /\ req = [r \in Requests |-> Idle]
  /\ registry \in SUBSET InteractiveConnections
  /\ validated = NotValidating
  /\ workload = "any"
  /\ client = NoClientCall
  /\ main = Listening

\* Requests processed concurrently.
InitConcurrent ==
  /\ req = [r \in Requests |-> Idle]
  /\ registry \in SUBSET InteractiveConnections
  /\ validated = NotValidating
  /\ workload = "lifecycle"
  /\ client = NoClientCall
  /\ main = Listening

\* The last call of this iteration ended with `result`.
Ended(calls, result) ==
  [calls EXCEPT ![Len(calls)] = [@ EXCEPT !.result = result]]

\* The handler's promise rejects: express-promise-router hands the error to
\* Express, which finds the response sent and closes the connection.
Rejected(rec, error) == [rec EXCEPT !.pc = "rejected", !.error = error]

\* End of one iteration of the for loop: on to the next notification, or the
\* handler returns.
Continue(rec) ==
  IF rec.remaining = 0 THEN [rec EXCEPT !.pc = "done"]
  ELSE [rec EXCEPT !.pc = "loop"]

\* A failure no try/catch stands around: it leaves the handler.
Thrown(rec, message) == Rejected(rec, message)

\* A failure the dispatcher's try/catch caught and logged.
Caught(rec, message) == [rec EXCEPT !.caught = message]

\* ------------------------------------------------- processRequest: arrival
\* The answer left for later: nothing is sent on arrival.
sendStatusLater(status, code) == status

\* res.sendStatus(code)
sendStatus(status, code) == Append(status, code)

\* changeNotifications && changeNotifications.value &&
\* changeNotifications.validationTokens: an absent field is falsy, an array
\* (also an empty one), an object and a non-empty string are truthy.
hasNotifications(body) ==
  body.value.kind # "absent" /\ body.validationTokens.kind # "absent"

\* processRequest up to its first await: answer 202, check the body, start
\* one isTokenValid per token and await them all.
processRequestEntry(body) ==
  LET rec == [Idle EXCEPT !.value = body.value,
                          !.validationTokens = body.validationTokens,
                          !.status = sendStatus(<<>>, 202)]
  IN IF ~hasNotifications(body) THEN [rec EXCEPT !.pc = "done"]
     ELSE IF body.validationTokens.kind = "string"
       THEN Rejected(rec, "TypeError: validationTokens.map is not a function")
     ELSE [rec EXCEPT !.pc = "validating",
                      !.validationResults =
                         [i \in 1..body.validationTokens.n |-> "pending"]]

\* A wait that keeps the thread: no POST is taken while a request sits in the
\* wait between two reads of an operation.
processRequestBlocked(r) ==
  /\ main.pc = "listening"
  /\ r \in Slots(workload)
  /\ req[r].pc = "idle"
  /\ \A s \in Requests : req[s].pc # "sleeping"
  /\ \E body \in BodiesOf(workload) :
       req' = [req EXCEPT ![r] =
                 IF body.json = "malformed"
                   THEN [Idle EXCEPT !.pc = "badRequest", !.status = <<400>>]
                   ELSE processRequestEntry(body)]
  /\ UNCHANGED <<registry, validated, workload, client, main>>

\* A POST / arrives. express.json() answers a body that is no JSON with 400
\* and the handler never runs; any other body reaches processRequest.
processRequest(r) ==
  /\ main.pc = "listening"
  /\ r \in Slots(workload)
  /\ req[r].pc = "idle"
  /\ \E body \in BodiesOf(workload) :
       req' = [req EXCEPT ![r] =
                 IF body.json = "malformed"
                   THEN [Idle EXCEPT !.pc = "badRequest", !.status = <<400>>]
                   ELSE processRequestEntry(body)]
  /\ UNCHANGED <<registry, validated, workload, client, main>>

\* What isTokenValid can settle to, over every token and every state of the
\* key set.
TokenOutcomes ==
  {isTokenValid(token, keySet) : token \in Tokens, keySet \in KeySetStates}

\* One of the batch's isTokenValid promises settles; they run in parallel
\* and settle in any order.
TokenValidated(r) ==
  /\ req[r].pc = "validating"
  /\ \E i \in 1..Len(req[r].validationResults) :
       /\ req[r].validationResults[i] = "pending"
       /\ \E outcome \in TokenOutcomes \ {"pending"} :
            req' = [req EXCEPT ![r].validationResults[i] = outcome]
  /\ UNCHANGED <<registry, validated, workload, client, main>>

\* Promise.all has resolved: reduce the results and, if all tokens are
\* valid, enter the loop over changeNotifications.value.
TokensValidated(r) ==
  LET rec == req[r] IN
  /\ rec.pc = "validating"
  /\ \A i \in 1..Len(rec.validationResults) :
       rec.validationResults[i] # "pending"
  /\ req' = [req EXCEPT ![r] =
       IF Len(rec.validationResults) = 0
         THEN Rejected(rec,
                "TypeError: Reduce of empty array with no initial value")
       ELSE IF reduce(rec.validationResults) # "true"
         THEN [rec EXCEPT !.pc = "done"]
       ELSE IF rec.value.kind = "object"
         THEN Rejected(rec, "TypeError: value is not iterable")
       ELSE Continue([rec EXCEPT !.remaining = rec.value.n])]
  /\ UNCHANGED <<registry, validated, workload, client, main>>

\* --------------------------------------------- processRequest: one iteration
\* connectorData && connectorData['@odata.type'].toLowerCase() ===
\* '#microsoft.graph.connector': "yes", "no", or "throws" when resourceData
\* has no '@odata.type' to call toLowerCase on.
isConnectorData(notification) ==
  IF ~notification.hasResourceData THEN "no"
  ELSE IF notification.odataType = NoType THEN "throws"
  ELSE IF toLowerCase(notification.odataType) = ConnectorType THEN "yes"
  ELSE "no"

\* The test of the state made without regard to letter case.
isEnableAnyCase(notification) == notification.state \in {"enabled", "Enabled"}

\* connectorData.state === 'enabled'
isEnable(notification) == notification.state = "enabled"

\* How the call of this iteration to the method `op` ended: "none" when the
\* iteration made no such call.
ResultOf(rec, op) ==
  IF \E i \in 1..Len(rec.calls) : rec.calls[i].op = op
    THEN LET i == CHOOSE i \in 1..Len(rec.calls) : rec.calls[i].op = op
         IN rec.calls[i].result
    ELSE "none"

\* What an iteration of the for loop did for an 'enabled' connector
\* notification: the identity and the ticket it carried and how its create
\* and its register-schema call ended.
Enabling(rec) ==
  [id               |-> rec.notification.id,
   connectorsTicket |-> rec.notification.connectorsTicket,
   create           |-> ResultOf(rec, "createConnectionAsync"),
   register         |-> ResultOf(rec, "registerSchemaAsync")]

\* The iterations of the for loop a request has finished that created a
\* connection for an 'enabled' connector notification; the loop itself keeps
\* nothing of them.
Finished(rec) ==
  IF /\ isConnectorData(rec.notification) = "yes"
     /\ isEnable(rec.notification)
     /\ ResultOf(rec, "createConnectionAsync") = "ok"
    THEN rec.earlier \cup {Enabling(rec)}
    ELSE rec.earlier

\* The head of one iteration: take the next notification; a connector
\* payload starts the read of the connections, anything else is passed over.
ExamineNotification(r) ==
  /\ req[r].pc = "loop"
  /\ \E n \in NotificationsOf(workload) :
       LET rec == [req[r] EXCEPT !.remaining = @ - 1,
                                 !.earlier = Finished(req[r]),
                                 !.notification = n,
                                 !.allConnections = {},
                                 !.listed = FALSE,
                                 !.existingConnection = NoConnection,
                                 !.calls = <<>>,
                                 !.operationId = <<>>,
                                 !.response = <<>>,
                                 !.reads = 0,
                                 !.waits = 0,
                                 !.readPath = <<>>,
                                 !.operation = <<>>,
                                 !.caught = "none"]
       IN req' = [req EXCEPT ![r] =
            CASE isConnectorData(n) = "yes" ->
                   [rec EXCEPT !.pc = "listing", !.calls = <<ListCall>>]
              [] isConnectorData(n) = "throws" ->
                   Rejected(rec, "TypeError: toLowerCase of undefined")
              [] OTHER -> Continue(rec)]
  /\ UNCHANGED <<registry, validated, workload, client, main>>

\* The create call with the ticket and the identity in each other's place.
createArgumentsSwapped(notification) ==
  CreateCall(DispatcherConnectionId, notification.id,
             notification.connectorsTicket)

\* The create call with a connection identifier of the identity's own.
createArgumentsPerIdentity(notification) ==
  CreateCall(notification.id, notification.connectorsTicket, notification.id)

\* The arguments of the dispatcher's createConnectionAsync call.
createArguments(notification) ==
  CreateCall(DispatcherConnectionId, notification.connectorsTicket,
             notification.id)

\* The delete call naming the connector identity, not the connection.
deleteArgumentConnectorId(notification, existingConnection) ==
  DeleteCall(notification.id)

\* The argument of the dispatcher's deleteConnectionAsync call.
deleteArgument(notification, existingConnection) ==
  DeleteCall(existingConnection.id)

\* The reconciliation with the two tests of existingConnection dropped:
\* enable always creates, anything else always deletes what the search gave.
reconcileUnchecked(rec) ==
  IF isEnable(rec.notification)
    THEN [rec EXCEPT !.pc = "creating",
            !.calls = Append(@, createArguments(rec.notification))]
    ELSE [rec EXCEPT !.pc = "deleting",
            !.calls = Append(@, deleteArgument(rec.notification,
                                             rec.existingConnection))]

\* After the search: enable creates unless a connection matched, anything
\* else deletes the connection that matched, if one did.
reconcile(rec) ==
  IF isEnable(rec.notification)
    THEN IF rec.existingConnection # NoConnection
           THEN Continue(rec)
           ELSE [rec EXCEPT !.pc = "creating",
                   !.calls = Append(@, createArguments(rec.notification))]
    ELSE IF rec.existingConnection # NoConnection
           THEN [rec EXCEPT !.pc = "deleting",
                   !.calls = Append(@, deleteArgument(rec.notification,
                                                    rec.existingConnection))]
           ELSE Continue(rec)

\* getConnectionsAsync returns. A failed read is outside every try block:
\* the handler's promise rejects. Otherwise search the list and reconcile.
ConnectionsListed(r) ==
  LET rec == req[r] IN
  /\ rec.pc = "listing"
  /\ \/ req' = [req EXCEPT ![r] =
                  Rejected([rec EXCEPT !.calls = Ended(@, "failed")],
                           "RemoteCallError: getConnectionsAsync")]
     \/ \E page \in getConnectionsAsync(registry) :
          \E existing \in search(page, rec.notification.id) :
            req' = [req EXCEPT ![r] =
                      reconcile([rec EXCEPT !.allConnections = page,
                                            !.listed = TRUE,
                                            !.existingConnection = existing,
                                            !.calls = Ended(@, "ok")])]
  /\ UNCHANGED <<registry, validated, workload, client, main>>

\* createConnectionAsync returns. The registry keeps identifiers unique: a
\* POST of an identifier it holds fails; any POST may fail (a refused ticket,
\* the network, the result-card file). After a created connection the
\* dispatcher posts the issues schema; a failure is caught and logged.
ConnectionCreated(r) ==
  LET rec  == req[r]
      call == rec.calls[Len(rec.calls)]
      post == createConnectionAsync(call.id, DispatcherConnectionName, "Issues",
                DispatcherDescription, call.connectorsTicket, call.connectorId)
  IN
  /\ rec.pc = "creating"
  /\ \/ /\ post.body.id \notin Ids(registry)
        /\ registry' = registry \cup {post.body}
        /\ req' = [req EXCEPT ![r] =
             [rec EXCEPT !.pc = "registering",
                !.calls = Append(Ended(@, "ok"),
                            RegisterCall(DispatcherConnectionId, issuesSchema))]]
     \/ /\ UNCHANGED registry
        /\ req' = [req EXCEPT ![r] =
             Continue(Caught([rec EXCEPT !.calls = Ended(@, "failed")],
                             "Error creating connection: create failed"))]
  /\ UNCHANGED <<validated, workload, client, main>>

\* -------------------------------------------------------- registerSchemaAsync
\* response.headers.get('Location') : null when the header is absent
NoHeader == <<"<null>">>

\* Location headers the registry may answer with: none, an empty one, one
\* ending in the operation identifier, one ending in a slash.
Locations ==
  {NoHeader, <<>>,
   <<"o","p","e","r","a","t","i","o","n","s","/","O","P","9">>,
   <<"o","p","e","r","a","t","i","o","n","s","/">>}

\* The answer to the POST of the schema: the call threw (no answer), or a
\* raw response with its ok flag and its Location header.
SchemaResponses ==
  [threw : {TRUE}, ok : {FALSE}, location : {NoHeader}]
  \cup [threw : {FALSE}, ok : BOOLEAN, location : Locations]

\* location?.split('/') ?? []
locationSegments(location) ==
  IF location = NoHeader THEN <<>> ELSE split(location)

\* registerSchemaAsync after its POST: the error it throws, or "poll" with
\* the operation identifier it goes on to poll (the last segment).
registerSchemaAsync(response) ==
  IF response.threw
    THEN [next |-> "throw", operationId |-> <<>>,
          message |-> "RemoteCallError: schema POST"]
  ELSE IF response.ok
    THEN LET segments == locationSegments(response.location) IN
      IF Len(segments) <= 0
        THEN [next |-> "throw", operationId |-> <<>>,
              message |-> "Could not get operation ID from Location header"]
        ELSE [next |-> "poll", operationId |-> segments[Len(segments)],
              message |-> "none"]
  ELSE [next |-> "throw", operationId |-> <<>>,
        message |-> "Registering schema failed, status"]

\* The counters of reads count up to MaxPolls: a value of MaxPolls stands
\* for MaxPolls or more.
Counted(n) == IF n < MaxPolls THEN n + 1 ELSE MaxPolls

\* A poll that reads the operation twice.
readOperationTwice(rec, connectionId, operationId) ==
  [rec EXCEPT !.pc = "polling",
              !.reads = Counted(Counted(@)),
              !.readPath = <<connectionId, operationId>>]

\* graphClient.api(`/external/connections/${connectionId}/operations/
\* ${operationId}`).get(): one read of the operation is sent.
readOperation(rec, connectionId, operationId) ==
  [rec EXCEPT !.pc = "polling",
              !.reads = Counted(@),
              !.readPath = <<connectionId, operationId>>]

\* The POST of the schema returns. The registry answers ok only for a
\* connection it holds.
SchemaPosted(r) ==
  LET rec  == req[r]
      call == rec.calls[Len(rec.calls)]
  IN
  /\ rec.pc = "registering"
  /\ \E response \in SchemaResponses :
       /\ response.ok => call.id \in Ids(registry)
       /\ LET after == registerSchemaAsync(response)
              answered == [rec EXCEPT !.response = <<response>>]
          IN
          req' = [req EXCEPT ![r] =
            IF after.next = "poll"
              THEN readOperation(
                     [answered EXCEPT !.operationId = after.operationId],
                     call.id, after.operationId)
              ELSE Continue(Caught(
                     [answered EXCEPT !.calls = Ended(@, "failed")],
                     after.message))]
  /\ UNCHANGED <<registry, validated, workload, client, main>>

\* ------------------------------------------- waitForOperationToCompleteAsync
\* What one read of the operation returns: the read threw, or the operation
\* with its status and the message of its error, if it carries one.
OperationReads ==
  [threw : {TRUE}, status : {"inprogress"}, message : {Undefined}]
  \cup [threw : {FALSE}, status : {"inprogress", "completed"},
        message : {Undefined}]
  \cup [threw : {FALSE}, status : {"failed"},
        message : {Undefined, "", "bad schema"}]

\* The poll throwing its own message whatever the operation reports.
waitForOperationGenericMessage(operation) ==
  IF operation.threw
    THEN [next |-> "throw", message |-> "RemoteCallError: operation GET"]
  ELSE IF operation.status = "completed"
    THEN [next |-> "return", message |-> "none"]
  ELSE IF operation.status = "failed"
    THEN [next |-> "throw", message |-> "Registering schema failed"]
  ELSE [next |-> "wait", message |-> "none"]

\* The poll catching a failed read and reading again a minute later.
waitForOperationRetrying(operation) ==
  IF operation.threw
    THEN [next |-> "wait", message |-> "none"]
  ELSE IF operation.status = "completed"
    THEN [next |-> "return", message |-> "none"]
  ELSE IF operation.status = "failed"
    THEN [next |-> "throw",
          message |-> IF operation.message # Undefined THEN operation.message
                      ELSE "Registering schema failed"]
  ELSE [next |-> "wait", message |-> "none"]

\* One turn of the do-while after its read: "return", "throw" with the
\* message thrown, or "wait" for the next minute.
waitForOperationToCompleteAsync(operation) ==
  IF operation.threw
    THEN [next |-> "throw", message |-> "RemoteCallError: operation GET"]
  ELSE IF operation.status = "completed"
    THEN [next |-> "return", message |-> "none"]
  ELSE IF operation.status = "failed"
    THEN [next |-> "throw",
          message |-> IF operation.message # Undefined THEN operation.message
                      ELSE "Registering schema failed"]
  ELSE [next |-> "wait", message |-> "none"]

\* The registry with the schema of a completed operation on its connection.
WithSchema(connections, id, schema) ==
  {IF c.id = id THEN [c EXCEPT !.schema = schema] ELSE c : c \in connections}

\* A read of the operation returns. The registry reports a completed
\* operation only for a connection it holds, which then has the schema.
OperationRead(r) ==
  LET rec  == req[r]
      call == rec.calls[Len(rec.calls)]
  IN
  /\ rec.pc = "polling"
  /\ \E operation \in OperationReads :
       LET turn == waitForOperationToCompleteAsync(operation) IN
       /\ (~operation.threw /\ operation.status = "completed")
             => call.id \in Ids(registry)
       /\ registry' = IF turn.next = "return"
                        THEN WithSchema(registry, call.id, call.schema)
                        ELSE registry
       /\ req' = [req EXCEPT ![r] =
            LET read == [rec EXCEPT !.operation = <<operation>>] IN
            CASE turn.next = "return" ->
                   Continue([read EXCEPT !.calls = Ended(@, "ok")])
              [] turn.next = "throw" ->
                   Continue(Caught([read EXCEPT !.calls = Ended(@, "failed")],
                                   turn.message))
              [] OTHER -> [read EXCEPT !.pc = "sleeping",
                                       !.waits = Counted(@)]]
  /\ UNCHANGED <<validated, workload, client, main>>

\* The poll giving up after MaxPolls non-terminal statuses: no further read.
PollTimerFiredCapped(r) ==
  /\ req[r].pc = "sleeping"
  /\ req[r].waits < MaxPolls
  /\ req' = [req EXCEPT ![r] =
       readOperation(req[r], req[r].calls[Len(req[r].calls)].id,
                     req[r].operationId)]
  /\ UNCHANGED <<registry, validated, workload, client, main>>

\* setTimeout(res, 60000) fires: the next turn of the loop reads again.
PollTimerFired(r) ==
  /\ req[r].pc = "sleeping"
  /\ req' = [req EXCEPT ![r] =
       readOperation(req[r], req[r].calls[Len(req[r].calls)].id,
                     req[r].operationId)]
  /\ UNCHANGED <<registry, validated, workload, client, main>>

\* ------------------------------------------------------ deleteConnectionAsync
\* deleteConnectionAsync returns: without an identifier it called nothing;
\* otherwise the DELETE removed the connection, or failed (caught, logged).
ConnectionDeleted(r) ==
  LET rec  == req[r]
      call == rec.calls[Len(rec.calls)]
  IN
  /\ rec.pc = "deleting"
  /\ \/ /\ deleteConnectionAsync(call.id) # NoRequest
             => call.id \in Ids(registry)
        /\ registry' = IF deleteConnectionAsync(call.id) # NoRequest
                         THEN {c \in registry : c.id # call.id}
                         ELSE registry
        /\ req' = [req EXCEPT ![r] =
                     Continue([rec EXCEPT !.calls = Ended(@, "ok")])]
     \/ /\ deleteConnectionAsync(call.id) # NoRequest
        /\ UNCHANGED registry
        /\ req' = [req EXCEPT ![r] =
             Continue(Caught([rec EXCEPT !.calls = Ended(@, "failed")],
                             "Error deleting connection: delete failed"))]
  /\ UNCHANGED <<validated, workload, client, main>>

\* The exchange is over (handler returned, its promise rejected, or the body
\* was refused): the listener takes the next POST in this slot.
RequestClosed(r) ==
  /\ req[r].pc \in {"done", "rejected", "badRequest"}
  /\ req' = [req EXCEPT ![r] = Idle]
  /\ UNCHANGED <<registry, validated, workload, client, main>>

Next ==
  \E r \in Requests :
    \/ processRequest(r)
    \/ TokenValidated(r)
    \/ TokensValidated(r)
    \/ ExamineNotification(r)
    \/ ConnectionsListed(r)
    \/ ConnectionCreated(r)
    \/ SchemaPosted(r)
    \/ OperationRead(r)
    \/ PollTimerFired(r)
    \/ ConnectionDeleted(r)
    \/ RequestClosed(r)

Spec == Init /\ [][Next]_vars

SpecConcurrent == InitConcurrent /\ [][Next]_vars

\* The listener with what Node guarantees of a poll: the 60 s timer fires,
\* and a read of the operation that was sent is answered or fails.
SpecPolling ==
  /\ Init
  /\ [][Next]_vars
  /\ \A r \in Requests : WF_vars(OperationRead(r))
  /\ \A r \in Requests : WF_vars(PollTimerFired(r))

\* ------------------------------------------- the token validator on its own
\* Every token and every state of the key set.
InitToken ==
  /\ req = [r \in Requests |-> Idle]
  /\ registry = {}
  /\ workload = "any"
  /\ client = NoClientCall
  /\ main = Listening
  /\ validated \in [token : Tokens, keySet : KeySetStates, outcome : {"none"}]

\* isTokenValid(token) is called and its promise settles, or stays pending.
ValidateToken ==
  /\ validated.outcome = "none"
  /\ validated' = [validated EXCEPT
                     !.outcome = isTokenValid(validated.token, validated.keySet)]
  /\ UNCHANGED <<req, registry, workload, client, main>>

NextToken == ValidateToken

SpecToken == InitToken /\ [][NextToken]_vars

\* ------------------------------------------- the registry client on its own
\* Connections the registry may hold when the client is called: one made
\* from the menu, one made by the dispatcher.
ClientConnections ==
  {Connection("conn42", Undefined, "none"),
   Connection(DispatcherConnectionId, "C1", issuesSchema)}

InitClient ==
  /\ req = [r \in Requests |-> Idle]
  /\ registry \in SUBSET ClientConnections
  /\ validated = NotValidating
  /\ workload = "any"
  /\ client \in ClientCalls
  /\ main = Listening

\* The method runs up to its request: createConnectionAsync always posts,
\* deleteConnectionAsync sends its DELETE or returns having sent nothing.
ClientCalled ==
  /\ client.pc = "called"
  /\ LET request == IF client.op = "createConnectionAsync"
                      THEN createRequest(client.connectionId,
                             client.connectorTicket, client.connectorId)
                      ELSE deleteConnectionAsync(client.connectionId)
     IN client' = IF request = NoRequest
                    THEN [client EXCEPT !.pc = "resolved"]
                    ELSE [client EXCEPT !.pc = "awaiting", !.request = request]
  /\ UNCHANGED <<req, registry, validated, workload, main>>

\* The registry answers the request: a POST adds the connection unless its
\* identifier is taken, a DELETE removes the connection it names; either
\* request may fail, and the method's promise then rejects.
RegistryAnswered ==
  /\ client.pc = "awaiting"
  /\ \/ /\ client.request.method = "POST"
        /\ client.request.id \notin Ids(registry)
        /\ registry' = registry \cup {client.request.body}
        /\ client' = [client EXCEPT !.pc = "resolved"]
     \/ /\ client.request.method = "DELETE"
        /\ client.request.id \in Ids(registry)
        /\ registry' = {c \in registry : c.id # client.request.id}
        /\ client' = [client EXCEPT !.pc = "resolved"]
     \/ /\ UNCHANGED registry
        /\ client' = [client EXCEPT !.pc = "rejected"]
  /\ UNCHANGED <<req, validated, workload, main>>

NextClient == ClientCalled \/ RegistryAnswered

SpecClient == InitClient /\ [][NextClient]_vars

\* ------------------------------------------------------------------ startup
\* Every set of settings given, with and without --use-simplified-admin.
InitStartup ==
  /\ req = [r \in Requests |-> Idle]
  /\ registry \in SUBSET InteractiveConnections
  /\ validated = NotValidating
  /\ workload = "any"
  /\ client = NoClientCall
  /\ main \in {Process(env, simplifiedAdmin) :
                 env \in SUBSET Settings, simplifiedAdmin \in BOOLEAN}

\* A constructor returned, or threw: main()'s promise rejects and the
\* process ends.
Constructed(proc, service, error, pc) ==
  IF error = "none"
    THEN [proc EXCEPT !.pc = pc, !.constructed = @ \cup {service}]
    ELSE [proc EXCEPT !.pc = "crashed", !.error = error]

\* const connectorService = new SearchConnectorService({...})
ConstructConnectorService ==
  /\ main.pc = "main"
  /\ main' = Constructed(main, "SearchConnectorService",
               SearchConnectorServiceConstructor(main.env), "connectorService")
  /\ UNCHANGED <<req, registry, validated, workload, client>>

\* const repoService = new RepositoryService({...})
ConstructRepositoryService ==
  /\ main.pc = "connectorService"
  /\ main' = Constructed(main, "RepositoryService",
               RepositoryServiceConstructor(main.env), "repoService")
  /\ UNCHANGED <<req, registry, validated, workload, client>>

\* With --use-simplified-admin the listener is constructed and listens on the
\* port; otherwise the menu runs.
StartListenerOrMenu ==
  /\ main.pc = "repoService"
  /\ main' = IF main.simplifiedAdmin
               THEN Constructed([main EXCEPT !.port = port(main.env)],
                       "M365AppConfigService",
                       M365AppConfigServiceConstructor(main.env), "listening")
               ELSE [main EXCEPT !.pc = "interactive"]
  /\ UNCHANGED <<req, registry, validated, workload, client>>

NextStartup ==
  \/ ConstructConnectorService
  \/ ConstructRepositoryService
  \/ StartListenerOrMenu
  \/ Next

SpecStartup == InitStartup /\ [][NextStartup]_vars

\* -------------------------------------------------------------- the menu loop
\* main() at the first prompt of the menu, every setting given.
Interactive ==
  [Process(Settings, FALSE) EXCEPT
     !.pc = "interactive",
     !.constructed = {"SearchConnectorService", "RepositoryService"}]

\* Identifiers the operator types for a new connection; the prompt takes 3
\* to 32 alphanumeric characters and nothing else.
MenuConnectionIds == {"conn42", "conn7"}

InitMenu ==
  /\ req = [r \in Requests |-> Idle]
  /\ registry \in SUBSET ClientConnections
  /\ validated = NotValidating
  /\ workload = "any"
  /\ client = NoClientCall
  /\ main = Interactive

\* The top of one turn of the loop: keyInSelect returned `choice`.
Prompted(menu, choice) ==
  [menu EXCEPT !.choice = choice,
               !.selected = menu.currentConnection,
               !.confirmed = "none",
               !.calls = <<>>,
               !.caught = "none"]

\* The current connection given up only when the DELETE went through.
UnselectIfDeleted(menu) ==
  IF menu.calls # <<>> /\ menu.calls[Len(menu.calls)].result = "ok"
    THEN [menu EXCEPT !.currentConnection = NoConnection]
    ELSE menu

\* currentConnection = undefined, after deleteConnectionInteractivelyAsync
Unselect(menu) == [menu EXCEPT !.currentConnection = NoConnection]

\* The operator chooses Exit (or cancels the menu): the loop ends.
ChooseExit ==
  /\ main.pc = "interactive"
  /\ main' = [main EXCEPT !.pc = "exited", !.menu = Prompted(@, "Exit")]
  /\ UNCHANGED <<req, registry, validated, workload, client>>

\* CreateConnection: the prompts, then createConnectionAsync without ticket
\* or connector identity.
ChooseCreateConnection ==
  /\ main.pc = "interactive"
  /\ \E id \in MenuConnectionIds :
       main' = [main EXCEPT !.pc = "menuCreating",
                  !.menu = [Prompted(@, "CreateConnection") EXCEPT
                              !.calls = <<CreateCall(id, Undefined, Undefined)>>]]
  /\ UNCHANGED <<req, registry, validated, workload, client>>

\* createConnectionAsync returns to the menu: the connection created becomes
\* the current one; a failure is logged and leaves no current connection.
MenuConnectionCreated ==
  LET menu == main.menu
      call == menu.calls[Len(menu.calls)]
      post == createConnectionAsync(call.id, "name", "Issues", "description",
                                    call.connectorsTicket, call.connectorId)
  IN
  /\ main.pc = "menuCreating"
  /\ \/ /\ post.body.id \notin Ids(registry)
        /\ registry' = registry \cup {post.body}
        /\ main' = [main EXCEPT !.pc = "interactive",
                      !.menu = [menu EXCEPT !.calls = Ended(@, "ok"),
                                            !.currentConnection = post.body]]
     \/ /\ UNCHANGED registry
        /\ main' = [main EXCEPT !.pc = "interactive",
                      !.menu = [menu EXCEPT !.calls = Ended(@, "failed"),
                                  !.caught = "Error creating connection",
                                  !.currentConnection = NoConnection]]
  /\ UNCHANGED <<req, validated, workload, client>>

\* SelectConnection: getConnectionsAsync is called.
ChooseSelectConnection ==
  /\ main.pc = "interactive"
  /\ main' = [main EXCEPT !.pc = "menuListing",
                !.menu = [Prompted(@, "SelectConnection") EXCEPT
                            !.calls = <<ListCall>>]]
  /\ UNCHANGED <<req, registry, validated, workload, client>>

\* getConnectionsAsync returns to the menu: the operator picks one of the
\* connections read, or none; an empty list or a failure gives none.
MenuConnectionsListed ==
  LET menu == main.menu IN
  /\ main.pc = "menuListing"
  /\ \/ main' = [main EXCEPT !.pc = "interactive",
                    !.menu = [menu EXCEPT !.calls = Ended(@, "failed"),
                                !.caught = "Error getting connections",
                                !.currentConnection = NoConnection]]
     \/ \E page \in getConnectionsAsync(registry) :
          \E pick \in page \cup {NoConnection} :
            main' = [main EXCEPT !.pc = "interactive",
                       !.menu = [menu EXCEPT !.calls = Ended(@, "ok"),
                                             !.currentConnection = pick]]
  /\ UNCHANGED <<req, registry, validated, workload, client>>

\* DeleteConnection: with no current connection a line is logged; with one,
\* the operator is asked; on yes deleteConnectionAsync is called with its
\* id; once deleteConnectionInteractivelyAsync returned, whatever it did,
\* there is no current connection.
ChooseDeleteConnection ==
  LET menu == Prompted(main.menu, "DeleteConnection") IN
  /\ main.pc = "interactive"
  /\ IF menu.selected = NoConnection
       THEN main' = [main EXCEPT !.menu = menu]
       ELSE \E yes \in {"yes", "no"} :
              LET asked == [menu EXCEPT !.confirmed = yes] IN
              main' =
                IF yes = "no"
                    \/ deleteConnectionAsync(menu.selected.id) = NoRequest
                  THEN [main EXCEPT !.menu = Unselect(asked)]
                  ELSE [main EXCEPT !.pc = "menuDeleting",
                          !.menu = [asked EXCEPT
                             !.calls = <<DeleteCall(menu.selected.id)>>]]
  /\ UNCHANGED <<req, registry, validated, workload, client>>

\* deleteConnectionAsync returns to the menu: the DELETE removed the
\* connection, or failed and was logged.
MenuConnectionDeleted ==
  LET menu == main.menu
      call == menu.calls[Len(menu.calls)]
  IN
  /\ main.pc = "menuDeleting"
  /\ \/ /\ call.id \in Ids(registry)
        /\ registry' = {c \in registry : c.id # call.id}
        /\ main' = [main EXCEPT !.pc = "interactive",
                      !.menu = Unselect([menu EXCEPT !.calls = Ended(@, "ok")])]
     \/ /\ UNCHANGED registry
        /\ main' = [main EXCEPT !.pc = "interactive",
                      !.menu = Unselect([menu EXCEPT
                                  !.calls = Ended(@, "failed"),
                                  !.caught = "Error deleting connection"])]
  /\ UNCHANGED <<req, validated, workload, client>>

\* RegisterSchema: with no current connection a line is logged; with one,
\* the operator picks the item type and registerSchemaAsync is called.
ChooseRegisterSchema ==
  LET menu == Prompted(main.menu, "RegisterSchema") IN
  /\ main.pc = "interactive"
  /\ IF menu.selected = NoConnection
       THEN main' = [main EXCEPT !.menu = menu]
       ELSE IF ~Truthy(menu.selected.id)
         THEN main' = [main EXCEPT !.pc = "crashed", !.menu = menu,
                         !.error = "connectionId cannot be empty or undefined"]
       ELSE \E schema \in {issuesSchema, reposSchema} :
              main' = [main EXCEPT !.pc = "menuRegistering",
                         !.menu = [menu EXCEPT
                            !.calls = <<RegisterCall(menu.selected.id, schema)>>]]
  /\ UNCHANGED <<req, registry, validated, workload, client>>

\* registerSchemaAsync returns to the menu, its POST and its poll over: the
\* connection has the schema, or the failure is logged.
MenuSchemaRegistered ==
  LET menu == main.menu
      call == menu.calls[Len(menu.calls)]
  IN
  /\ main.pc = "menuRegistering"
  /\ \/ /\ call.id \in Ids(registry)
        /\ registry' = WithSchema(registry, call.id, call.schema)
        /\ main' = [main EXCEPT !.pc = "interactive",
                      !.menu = [menu EXCEPT !.calls = Ended(@, "ok")]]
     \/ /\ UNCHANGED registry
        /\ main' = [main EXCEPT !.pc = "interactive",
                      !.menu = [menu EXCEPT !.calls = Ended(@, "failed"),
                                  !.caught = "Error registering schema"]]
  /\ UNCHANGED <<req, validated, workload, client>>

\* PushAllItems: with no current connection a line is logged; with one, the
\* items of the repository are read and put to the connection.
ChoosePushAllItems ==
  LET menu == Prompted(main.menu, "PushAllItems") IN
  /\ main.pc = "interactive"
  /\ IF menu.selected = NoConnection
       THEN main' = [main EXCEPT !.menu = menu]
       ELSE IF ~Truthy(menu.selected.id)
         THEN main' = [main EXCEPT !.pc = "crashed", !.menu = menu,
                         !.error = "connectionId cannot be empty or undefined"]
       ELSE main' = [main EXCEPT !.pc = "menuPushing",
                       !.menu = [menu EXCEPT !.calls =
                          <<Call("addOrUpdateItemAsync", menu.selected.id,
                                 Undefined, Undefined, Undefined)>>]]
  /\ UNCHANGED <<req, registry, validated, workload, client>>

\* The push returns to the menu: every item was put or its failure logged;
\* or a read outside every try block failed and main()'s promise rejects.
MenuItemsPushed ==
  LET menu == main.menu IN
  /\ main.pc = "menuPushing"
  /\ \/ main' = [main EXCEPT !.pc = "interactive",
                    !.menu = [menu EXCEPT !.calls = Ended(@, "ok")]]
     \/ main' = [main EXCEPT !.pc = "interactive",
                    !.menu = [menu EXCEPT !.calls = Ended(@, "failed"),
                                !.caught = "Error adding/updating item"]]
     \/ main' = [main EXCEPT !.pc = "crashed",
                    !.menu = [menu EXCEPT !.calls = Ended(@, "failed")],
                    !.error = "RemoteCallError: getReadmeAsync"]
  /\ UNCHANGED <<req, registry, validated, workload, client>>

NextMenu ==
  \/ ChooseExit
  \/ ChooseCreateConnection
  \/ MenuConnectionCreated
  \/ ChooseSelectConnection
  \/ MenuConnectionsListed
  \/ ChooseDeleteConnection
  \/ MenuConnectionDeleted
  \/ ChooseRegisterSchema
  \/ MenuSchemaRegistered
  \/ ChoosePushAllItems
  \/ MenuItemsPushed

SpecMenu == InitMenu /\ [][NextMenu]_vars

\* ================================================================ properties
\* The request in slot r has entered the loop over its notifications.
InLoop(rec) ==
  rec.pc \in {"loop", "listing", "creating", "registering", "polling",
              "sleeping", "deleting"}

\* The list this iteration read holds a connection with the notification's
\* connector identity.
ListedMatch(rec) ==
  \E c \in rec.allConnections : c.connectorId = rec.notification.id

\* The notification's type tag equals the connector tag, letter case aside.
Recognized(n) ==
  /\ n.hasResourceData
  /\ n.odataType # NoType
  /\ toLowerCase(n.odataType) = toLowerCase(ConnectorType)

\* The call `call` ended with `result`.
EndedWith(call, result) == [call EXCEPT !.result = result]

\* C1: a batch is acted on only if every one of its tokens validated true,
\* in whatever order the validations complete; with one token invalid the
\* loop is never entered and no call to the registry client is made for any
\* notification of the batch.
C1_AllTokensOrNothing ==
  \A r \in Requests :
    LET rec == req[r]
        results == rec.validationResults
    IN
    /\ (\E i \in 1..Len(results) : results[i] = "false")
         => /\ rec.pc \in {"validating", "done"}
            /\ rec.calls = <<>>
            /\ rec.notification = NoNotification
            /\ rec.remaining = 0
    /\ (InLoop(rec) \/ rec.calls # <<>>)
         => /\ Len(results) > 0
            /\ \A i \in 1..Len(results) : results[i] = "true"

\* C1 witness: a batch with notifications whose first token validated true
\* and whose second validated false has ended without a call.
C1_Witness ==
  \E r \in Requests :
    /\ req[r].pc = "done"
    /\ req[r].value.kind = "array" /\ req[r].value.n > 0
    /\ req[r].validationResults = <<"true", "false">>
    /\ req[r].calls = <<>>

C4_EnableCreatesThenRegisters ==
  \A r \in Requests :
    LET rec == req[r]
        n == rec.notification
        list == EndedWith(ListCall, "ok")
        create == CreateCall(DispatcherConnectionId, n.connectorsTicket, n.id)
        register == RegisterCall(DispatcherConnectionId, issuesSchema)
    IN
    /\ (/\ rec.pc = "done"
        /\ rec.value = Shape("array", 1)
        /\ rec.listed
        /\ Recognized(n)
        /\ n.state = "enabled"
        /\ ~ListedMatch(rec))
         => rec.calls \in
              {<<list, EndedWith(create, "failed")>>,
               <<list, EndedWith(create, "ok"), EndedWith(register, "ok")>>,
               <<list, EndedWith(create, "ok"), EndedWith(register, "failed")>>}
    /\ \A i \in 1..Len(rec.calls) :
         rec.calls[i].op = "registerSchemaAsync"
           => /\ i > 1
              /\ rec.calls[i - 1].op = "createConnectionAsync"
              /\ rec.calls[i - 1].result = "ok"

\* C4 witness: the batch of one enable for C1 with ticket T1 has ended after
\* a create with C1 and T1 and a register-schema, both successful.
C4_Witness ==
  \E r \in Requests :
    /\ req[r].pc = "done"
    /\ req[r].value = Shape("array", 1)
    /\ req[r].calls =
         <<EndedWith(ListCall, "ok"),
           EndedWith(CreateCall(DispatcherConnectionId, "T1", "C1"), "ok"),
           EndedWith(RegisterCall(DispatcherConnectionId, issuesSchema), "ok")>>

C6_UnrecognizedIsSkipped ==
  \A r \in Requests :
    LET rec == req[r] IN
    (rec.notification.hasResourceData /\ ~Recognized(rec.notification))
      => /\ rec.calls = <<>>
         /\ rec.error = "none"
         /\ rec.pc \in {"loop", "done"}

\* C7: a failed remote call made for a notification (list, create,
\* register-schema, delete) is caught and logged for that notification; the
\* handler's promise does not reject, and the notifications after it are
\* still processed.
C7_RemoteFailureIsIsolated ==
  \A r \in Requests :
    LET rec == req[r] IN
    (\E i \in 1..Len(rec.calls) : rec.calls[i].result = "failed")
      => /\ rec.caught # "none"
         /\ rec.error = "none"
         /\ rec.pc \in {"loop", "done"}
         /\ rec.remaining > 0 => rec.pc = "loop"

C9_GuardDoesNothing ==
  \A r \in Requests :
    LET rec == req[r] IN
    (/\ rec.pc \notin {"idle", "badRequest"}
     /\ \/ rec.value.kind # "array"
        \/ rec.validationTokens.kind = "absent"
        \/ rec.validationTokens = Shape("array", 0))
      => /\ \A i \in 1..Len(rec.validationResults) :
              rec.validationResults[i] = "pending"
         /\ rec.calls = <<>>
         /\ rec.error = "none"
         /\ rec.pc \in {"validating", "done"}

\* The token is well formed, the key set answers and publishes the key the
\* token names, that key signed it, it has not expired, its audience is the
\* client id and its issuer is one of the tenant's two issuers.
Accepts(token, keySet) ==
  /\ token.wellFormed
  /\ keySet = "reachable"
  /\ token.kid \in PublishedKids
  /\ token.signedBy = token.kid
  /\ ~token.expired
  /\ token.aud = ClientId
  /\ token.iss \in {IssuerV2(TenantId), IssuerSts(TenantId)}

\* C10: isTokenValid always resolves, to true or to false: it never rejects
\* and never stays pending; it resolves true exactly when the token verifies
\* against the fetched key with the client id as audience and one of the
\* tenant's two issuers, and false for every kind of failure, a failed key
\* fetch included.
C10_IsTokenValidIsTotal ==
  /\ validated.outcome \in {"unused", "none", "true", "false"}
  /\ validated.outcome \notin {"unused", "none"}
       => (validated.outcome = "true"
             <=> Accepts(validated.token, validated.keySet))

\* C10 witness: a token with nothing wrong resolved false because the key
\* set could not be reached.
C10_Witness ==
  /\ validated.outcome = "false"
  /\ validated.keySet = "unreachable"
  /\ Accepts(validated.token, "reachable")

\* C11: createConnectionAsync sends the ticket header and the connector
\* identity only as a pair: the record posted (and so the record created)
\* carries a connector identity exactly when the ticket header is sent, and
\* that is exactly when both a non-empty ticket and a non-empty identity
\* were given, in which case they are the ones given.
C11_TicketAndIdentityAsAPair ==
  (client.op = "createConnectionAsync" /\ client.pc # "called")
    => LET sent == client.request
           both == Truthy(client.connectorTicket) /\ Truthy(client.connectorId)
       IN /\ sent.method = "POST"
          /\ sent.body.id = client.connectionId
          /\ (sent.body.connectorId # Undefined) <=> (sent.ticket # Undefined)
          /\ (sent.ticket # Undefined) <=> both
          /\ both => /\ sent.body.connectorId = client.connectorId
                     /\ sent.ticket = client.connectorTicket
          /\ client.pc = "resolved" => sent.body \in registry

\* C11 witness: a create given a ticket and no identity succeeded, no ticket
\* header was sent and the connection created has no connector identity.
C11_Witness ==
  /\ client.op = "createConnectionAsync"
  /\ client.pc = "resolved"
  /\ client.connectorTicket = "T1"
  /\ client.connectorId = Undefined
  /\ client.request.ticket = Undefined
  /\ Connection(client.connectionId, Undefined, "none") \in registry

\* The schema POST succeeded and its Location header ends in a non-empty
\* operation identifier.
HasOperationId(response) ==
  /\ ~response.threw
  /\ response.ok
  /\ response.location # NoHeader
  /\ response.location # <<>>
  /\ split(response.location)[Len(split(response.location))] # <<>>

\* The register-schema call of this iteration, once it has ended.
RegisterEnded(rec, result) ==
  /\ rec.calls # <<>>
  /\ rec.calls[Len(rec.calls)].op = "registerSchemaAsync"
  /\ rec.calls[Len(rec.calls)].result = result

\* C12: when the schema POST does not succeed, or its Location header is
\* missing, empty or ends in an empty segment, registerSchemaAsync fails at
\* once with no read of the operation; a read is made only after a
\* successful POST that gave a non-empty operation identifier, the last
\* segment of Location.
C12_RegisterFailsWithoutPolling ==
  \A r \in Requests :
    LET rec == req[r] IN
    rec.response # <<>>
      => /\ ~HasOperationId(rec.response[1])
              => /\ rec.reads = 0
                 /\ RegisterEnded(rec, "failed")
                 /\ rec.caught # "none"
         /\ rec.reads > 0
              => /\ HasOperationId(rec.response[1])
                 /\ rec.operationId # <<>>
                 /\ rec.readPath[2] = rec.operationId

\* The register-schema call of this iteration is being polled.
Polled(rec) ==
  /\ rec.calls # <<>>
  /\ rec.calls[Len(rec.calls)].op = "registerSchemaAsync"
  /\ rec.reads > 0

\* C13: after a successful schema POST, an operation that reports a
\* non-terminal status k times and then 'completed' resolves
\* registerSchemaAsync after exactly k + 1 reads: every turn of the poll is
\* one read, of the operation named by the connection id and the operation
\* id, and no read follows the 'completed' one.
C13_CompletesAfterKPlusOneReads ==
  \A r \in Requests :
    LET rec == req[r] IN
    Polled(rec)
      => /\ rec.readPath = <<rec.calls[Len(rec.calls)].id, rec.operationId>>
         /\ rec.pc = "polling" => rec.reads = Counted(rec.waits)
         /\ rec.pc = "sleeping" => rec.reads = rec.waits
         /\ RegisterEnded(rec, "ok")
              => /\ rec.operation[1].status = "completed"
                 /\ ~rec.operation[1].threw
                 /\ rec.reads = Counted(rec.waits)
                 /\ rec.pc \in {"loop", "done"}

\* C13 witness: the operation was read as not finished once and then as
\* completed; the registration resolved after two reads.
C13_Witness ==
  \E r \in Requests :
    /\ RegisterEnded(req[r], "ok")
    /\ req[r].waits = 1
    /\ req[r].reads = 2
    /\ req[r].caught = "none"

\* C14: a read that reports the operation 'failed' makes registerSchemaAsync
\* reject at that read, with no further read, with the message of the
\* operation's error, or with 'Registering schema failed' when the operation
\* carries no message.
C14_FailedOperationRejectsWithItsMessage ==
  \A r \in Requests :
    LET rec == req[r] IN
    (/\ rec.operation # <<>>
     /\ ~rec.operation[1].threw
     /\ rec.operation[1].status = "failed")
      => /\ RegisterEnded(rec, "failed")
         /\ rec.caught = IF rec.operation[1].message # Undefined
                           THEN rec.operation[1].message
                           ELSE "Registering schema failed"
         /\ rec.reads = Counted(rec.waits)
         /\ rec.pc \in {"loop", "done"}

\* C14 witness: the operation failed with the message 'bad schema' and the
\* registration was rejected with it.
C14_Witness ==
  \E r \in Requests :
    /\ RegisterEnded(req[r], "failed")
    /\ req[r].operation # <<>>
    /\ req[r].operation[1].status = "failed"
    /\ req[r].operation[1].message = "bad schema"
    /\ req[r].caught = "bad schema"

\* The calls of this iteration that name the method `op`.
CallsOf(rec, op) == {i \in 1..Len(rec.calls) : rec.calls[i].op = op}

\* C15: a connector notification whose state is anything but the literal
\* 'enabled' ('disabled', 'Enabled', another word, no state) is handled as a
\* disable: no create and no register-schema call is made for it, the
\* connection the search found is the one deleted, and with no connection
\* found nothing is called.
C15_NotEnabledIsDisable ==
  \A r \in Requests :
    LET rec == req[r] IN
    (Recognized(rec.notification) /\ rec.notification.state # "enabled"
       /\ rec.listed)
      => /\ CallsOf(rec, "createConnectionAsync") = {}
         /\ CallsOf(rec, "registerSchemaAsync") = {}
         /\ rec.existingConnection # NoConnection
              => /\ Len(rec.calls) = 2
                 /\ rec.calls[2].op = "deleteConnectionAsync"
                 /\ rec.calls[2].id = rec.existingConnection.id
                 /\ rec.calls[2].result = "ok"
                      => rec.existingConnection \notin registry
         /\ rec.existingConnection = NoConnection
              => /\ Len(rec.calls) = 1
                 /\ rec.pc \in {"loop", "done"}

\* C15 witness: a notification with state 'Enabled' had the connection of
\* its connector identity deleted.
C15_Witness ==
  \E r \in Requests :
    /\ Recognized(req[r].notification)
    /\ req[r].notification.state = "Enabled"
    /\ Len(req[r].calls) = 2
    /\ req[r].calls[2].op = "deleteConnectionAsync"
    /\ req[r].calls[2].result = "ok"
    /\ req[r].existingConnection.connectorId = req[r].notification.id
    /\ req[r].existingConnection \notin registry

\* C16: the collection a listing returns is the whole of what the registry
\* holds at that moment, however the registry pages it: every connection
\* that exists (one created just before included) is in the list the
\* dispatcher searches.
C16_ListIsComplete ==
  [][\A r \in Requests :
       (req[r].pc = "listing" /\ req'[r].listed)
         => req'[r].allConnections = registry]_vars

\* main() has run to where it listens, shows the menu, or has died.
Started == main.pc \in {"listening", "interactive", "crashed"}

\* No request has been taken and no call to the registry has been made.
NothingCalled ==
  /\ \A r \in Requests : req[r] = Idle
  /\ client = NoClientCall
  /\ registry \in SUBSET InteractiveConnections

C18_DeleteWithoutIdIsNoOp ==
  (client.op = "deleteConnectionAsync" /\ client.pc # "called")
    => /\ ~Truthy(client.connectionId)
            => /\ client.request = NoRequest
               /\ client.pc = "resolved"
       /\ Truthy(client.connectionId)
            => /\ client.request.method = "DELETE"
               /\ client.request.id = client.connectionId
               /\ client.pc \in {"awaiting", "resolved", "rejected"}
               /\ client.pc = "resolved"
                    => client.connectionId \notin Ids(registry)

\* C18 witness: a delete without an identifier resolved, nothing was sent
\* and the registry holds what it held.
C18_Witness ==
  /\ client.op = "deleteConnectionAsync"
  /\ client.connectionId = Undefined
  /\ client.pc = "resolved"
  /\ client.request = NoRequest
  /\ registry = ClientConnections

\* The answer to a read says the operation is over.
Terminal(operation) ==
  ~operation.threw /\ operation.status \in {"completed", "failed"}

\* One turn of the poller, from the read in flight (a) to what follows (b):
\* 'completed' ends the registration well, 'failed' ends it with an error,
\* any other status waits for the next read, and the registration ends in no
\* other way than by a terminal status or a read that failed.
PollerTurn(a, b) ==
  /\ b.operation # <<>>
  /\ (~b.operation[1].threw /\ b.operation[1].status = "completed")
       => RegisterEnded(b, "ok")
  /\ (~b.operation[1].threw /\ b.operation[1].status = "failed")
       => RegisterEnded(b, "failed")
  /\ (~b.operation[1].threw /\ ~Terminal(b.operation[1]))
       => b.pc = "sleeping"
  /\ b.pc # "sleeping"
       => (Terminal(b.operation[1]) \/ b.operation[1].threw)

\* C19: the poller is the machine pending -> done on 'completed', pending ->
\* error on 'failed', pending -> pending on anything else, with no limit on
\* attempts and no timeout: whatever the number of reads so far, a wait is
\* followed by another read and a read by its answer, so the call returns
\* once a terminal status is read and reads go on for as long as none is.
C19_PollsUntilTerminal ==
  /\ [][\A r \in Requests :
          (req[r].pc = "polling" /\ req'[r] # req[r])
            => PollerTurn(req[r], req'[r])]_vars
  /\ \A r \in Requests :
       (req[r].pc = "sleeping") ~> (req[r].pc = "polling")
  /\ \A r \in Requests :
       (req[r].pc = "polling") ~> (req[r].pc # "polling")

\* C19 witness: after as many non-terminal statuses as are counted, the
\* operation is being read again.
C19_Witness ==
  \E r \in Requests :
    /\ req[r].pc = "polling"
    /\ req[r].waits = MaxPolls
    /\ req[r].reads = MaxPolls

\* C20: a read of the operation that fails is not caught and not retried by
\* the poll: it ends the poll with no further read and is the failure of
\* registerSchemaAsync, which the dispatcher catches and logs for the
\* notification; the handler goes on.
C20_FailedReadPropagates ==
  \A r \in Requests :
    LET rec == req[r] IN
    (rec.operation # <<>> /\ rec.operation[1].threw)
      => /\ RegisterEnded(rec, "failed")
         /\ rec.reads = Counted(rec.waits)
         /\ rec.caught = "RemoteCallError: operation GET"
         /\ rec.error = "none"
         /\ rec.pc \in {"loop", "done"}
         /\ rec.remaining > 0 => rec.pc = "loop"

\* C20 witness: the second read of the operation failed; the registration
\* ended there, the failure was caught and the batch goes on.
C20_Witness ==
  \E r \in Requests :
    /\ req[r].operation # <<>>
    /\ req[r].operation[1].threw
    /\ req[r].waits = 1
    /\ req[r].reads = 2
    /\ RegisterEnded(req[r], "failed")
    /\ req[r].caught = "RemoteCallError: operation GET"
    /\ req[r].pc = "loop"

\* An iteration this request finished was an 'enabled' notification for the
\* identity `id`, carrying that identity and a ticket, whose create call
\* succeeded.
CreatedEarlier(rec, id) ==
  \E e \in rec.earlier :
    /\ e.id = id
    /\ Truthy(e.id)
    /\ Truthy(e.connectorsTicket)
    /\ e.create = "ok"

\* Every call of the iterations this request finished has ended.
EarlierCallsEnded(rec) ==
  \A e \in rec.earlier : e.create # "pending" /\ e.register # "pending"

\* C21: the notifications of a batch are reconciled one at a time: when one
\* is taken up every call made for the ones before it has ended, and its
\* list of connections is read then; so once an 'enabled' notification for a
\* connector identity had its create succeed, a later 'enabled' notification
\* of the same batch for that identity makes no create call.
C21_OneCreatePerIdentityInABatch ==
  \A r \in Requests :
    LET rec == req[r] IN
    /\ EarlierCallsEnded(rec)
    /\ (/\ Recognized(rec.notification)
        /\ isEnable(rec.notification)
        /\ CreatedEarlier(rec, rec.notification.id))
         => CallsOf(rec, "createConnectionAsync") = {}

\* The next step of the request in slot s: its arrival when the slot is free,
\* else the continuation its handler waits for.
StepOf(s) ==
  \/ processRequest(s)
  \/ TokenValidated(s)
  \/ TokensValidated(s)
  \/ ExamineNotification(s)
  \/ ConnectionsListed(s)
  \/ ConnectionCreated(s)
  \/ SchemaPosted(s)
  \/ OperationRead(s)
  \/ PollTimerFired(s)
  \/ ConnectionDeleted(s)
  \/ RequestClosed(s)

\* C22: the wait between two reads of an operation suspends its own request
\* only and holds nothing another request needs: while a request sits in
\* that wait, a free slot can take a new POST, and every other request in
\* progress can take its next step, whatever it is, up to its end.
C22_WaitBlocksNoRequest ==
  \A r \in Requests :
    req[r].pc = "sleeping"
      => \A s \in Requests \ {r} :
           /\ req[s].pc = "idle" => ENABLED processRequest(s)
           /\ ENABLED StepOf(s)

\* C22 witness: the first request created the dispatcher's connection and
\* sits in the wait after a first read of the operation; the second request
\* has meanwhile found that connection, deleted it and returned.
C22_Witness ==
  /\ req[1].pc = "sleeping"
  /\ req[1].waits = 1
  /\ req[2].pc = "done"
  /\ req[2].status = <<202>>
  /\ req[2].existingConnection.id = DispatcherConnectionId
  /\ req[2].calls # <<>>
  /\ req[2].calls[Len(req[2].calls)] =
       EndedWith(DeleteCall(DispatcherConnectionId), "ok")
  /\ DispatcherConnectionId \notin Ids(registry)

\* The connections of the registry that the dispatcher created.
DispatcherCreated == registry \ InteractiveConnections

\* The connection the dispatcher created stands for the identity `a`.
CreatedFor(a) ==
  \E c \in DispatcherCreated :
    c.id = DispatcherConnectionId /\ c.connectorId = a

\* The request is at an 'enabled' connector notification for the identity
\* `b` while the dispatcher's connection stands for another identity.
EnableBesideAnother(rec, b) ==
  /\ Recognized(rec.notification)
  /\ isEnable(rec.notification)
  /\ rec.notification.id = b
  /\ \E a \in ConnectorIds \ {b} : CreatedFor(a)

\* C23: every create call of the dispatcher names the connection
\* 'GitHubIssuesM365', so the registry never holds more than one connection
\* the dispatcher created; an 'enabled' notification for an identity B taken
\* up while that connection stands for another identity A finds no match,
\* issues a create that fails, and the failure is caught and logged: no
\* connection for B comes to exist and the registry is left as it was.
C23_OneDispatcherConnection ==
  /\ [](/\ \A c \in DispatcherCreated : c.id = DispatcherConnectionId
        /\ Cardinality(DispatcherCreated) <= 1
        /\ \A r \in Requests :
             LET rec == req[r] IN
             /\ \A i \in CallsOf(rec, "createConnectionAsync") :
                  rec.calls[i].id = DispatcherConnectionId
             /\ \A b \in ConnectorIds :
                  EnableBesideAnother(rec, b)
                    => /\ ~CreatedFor(b)
                       /\ rec.listed
                            => /\ rec.existingConnection = NoConnection
                               /\ CallsOf(rec, "createConnectionAsync") # {}
                       /\ \A i \in CallsOf(rec, "createConnectionAsync") :
                            rec.calls[i].result # "pending"
                              => /\ rec.calls[i].result = "failed"
                                 /\ rec.caught # "none"
                                 /\ rec.error = "none"
                                 /\ rec.pc \in {"loop", "done"})
  /\ [][\A r \in Requests :
          (/\ req[r].pc = "creating"
           /\ req'[r] # req[r]
           /\ DispatcherConnectionId \in Ids(registry))
            => /\ registry' = registry
               /\ req'[r].calls = Ended(req[r].calls, "failed")]_vars

\* C23 witness: the dispatcher's connection stands for C1; an 'enabled'
\* notification for C2 found no match, its create failed and was logged, and
\* the registry holds the connection of C1 and none for C2.
C23_Witness ==
  \E r \in Requests :
    /\ EnableBesideAnother(req[r], "C2")
    /\ CreatedFor("C1")
    /\ req[r].listed
    /\ req[r].calls[Len(req[r].calls)] =
         EndedWith(CreateCall(DispatcherConnectionId, "T1", "C2"), "failed")
    /\ req[r].caught = "Error creating connection: create failed"
    /\ \A c \in registry : c.connectorId # "C2"

\* An iteration this request finished was an 'enabled' notification for the
\* identity `id`, carrying that identity and a ticket, whose create call
\* succeeded and whose register-schema call failed.
PartialEnableEarlier(rec, id) ==
  \E e \in rec.earlier :
    /\ e.id = id
    /\ Truthy(e.id)
    /\ Truthy(e.connectorsTicket)
    /\ e.create = "ok"
    /\ e.register = "failed"

\* C24: a partial enable is neither rolled back nor repaired: when the
\* create succeeded and the register-schema call failed, the connection
\* stays in the registry, and a later 'enabled' notification for the same
\* identity, taken up while the connection exists, finds it and does
\* nothing: after its list it makes no call, a register-schema call least
\* of all.
C24_PartialEnableIsLeftAlone ==
  \A r \in Requests :
    LET rec == req[r] IN
    /\ RegisterEnded(rec, "failed") => DispatcherConnectionId \in Ids(registry)
    /\ (/\ Recognized(rec.notification)
        /\ isEnable(rec.notification)
        /\ PartialEnableEarlier(rec, rec.notification.id)
        /\ DispatcherConnectionId \in Ids(registry))
         => /\ CallsOf(rec, "registerSchemaAsync") = {}
            /\ rec.listed
                 => /\ rec.existingConnection.id = DispatcherConnectionId
                    /\ rec.calls = <<EndedWith(ListCall, "ok")>>

\* The connections of the registry that stand for the connector identity c.
ConnectionsFor(c) == {x \in registry : x.connectorId = c}

\* The request is at an 'enabled' notification for the identity c with a
\* ticket, its list showed no connection at all, and its create call is
\* the last call it made.
EnablingUnmatched(rec, c) ==
  /\ Recognized(rec.notification)
  /\ isEnable(rec.notification)
  /\ rec.notification.id = c
  /\ Truthy(rec.notification.connectorsTicket)
  /\ rec.listed
  /\ rec.allConnections = {}
  /\ rec.existingConnection = NoConnection
  /\ Len(rec.calls) >= 2
  /\ rec.calls[2].op = "createConnectionAsync"

\* C25: the list and the create of an enable are two calls with other
\* requests' steps between them, so two requests enabling one identity can
\* both see no match and both issue a create. A create that returns while
\* the dispatcher's connection exists fails: the failure is caught and
\* logged in the request that made the call, no other request and nothing
\* in the registry changes by it, and the handler goes on; a create that
\* succeeds adds the one connection. The registry never holds two
\* connections for one identity.
C25_ConcurrentEnablesLeaveOneConnection ==
  /\ [](\A c \in ConnectorIds : Cardinality(ConnectionsFor(c)) <= 1)
  /\ [][\A s \in Requests :
          (req[s].pc = "creating" /\ req'[s] # req[s])
            => /\ \A r \in Requests \ {s} : req'[r] = req[r]
               /\ IF DispatcherConnectionId \in Ids(registry)
                    \/ req'[s].calls = Ended(req[s].calls, "failed")
                    THEN /\ registry' = registry
                         /\ req'[s].calls = Ended(req[s].calls, "failed")
                         /\ req'[s].caught # "none"
                         /\ req'[s].error = "none"
                         /\ req'[s].pc \in {"loop", "done"}
                    ELSE /\ Cardinality(registry' \ registry) = 1
                         /\ registry \subseteq registry'
                         /\ DispatcherConnectionId \in Ids(registry' \ registry)
                         /\ req'[s].pc = "registering"]_vars

\* C25 witness: two requests enabling C1 each listed an empty registry and
\* each issued a create; the first one's create succeeded, the second one's
\* failed and was logged, and the registry holds one connection for C1.
C25_Witness ==
  /\ EnablingUnmatched(req[1], "C1")
  /\ EnablingUnmatched(req[2], "C1")
  /\ req[1].calls[2].result = "ok"
  /\ req[2].calls[2].result = "failed"
  /\ req[2].caught = "Error creating connection: create failed"
  /\ req[2].error = "none"
  /\ Cardinality(ConnectionsFor("C1")) = 1

\* The menu waits at its prompt, the last choice dealt with.
AtPrompt == main.pc = "interactive"

\* C26: at the menu, DeleteConnection chosen with a connection selected
\* leaves no current connection once the turn is over, whether the operator
\* confirmed or declined and whether the DELETE went through or failed;
\* declined, nothing is called. DeleteConnection, RegisterSchema or
\* PushAllItems chosen with no connection selected calls nothing, leaves
\* the registry as it was and returns to the prompt at once.
C26_DeleteAlwaysUnselects ==
  /\ [](LET menu == main.menu IN
        /\ (AtPrompt /\ menu.choice = "DeleteConnection")
             => menu.currentConnection = NoConnection
        /\ (menu.choice = "DeleteConnection" /\ menu.confirmed = "no")
             => menu.calls = <<>> /\ AtPrompt
        /\ (/\ menu.choice \in {"DeleteConnection", "RegisterSchema",
                                 "PushAllItems"}
            /\ menu.selected = NoConnection)
             => menu.calls = <<>> /\ AtPrompt)
  /\ [][(/\ AtPrompt
         /\ main.menu.currentConnection = NoConnection
         /\ main'.menu.choice \in {"DeleteConnection", "RegisterSchema",
                                    "PushAllItems"})
          => /\ registry' = registry
             /\ main'.pc = "interactive"
             /\ main'.menu.calls = <<>>]_vars

\* C26 witness: a connection was selected, DeleteConnection chosen and
\* confirmed, the DELETE failed and was logged: the connection is still in
\* the registry and the menu is back at its prompt with none selected.
C26_Witness ==
  /\ AtPrompt
  /\ main.menu.choice = "DeleteConnection"
  /\ main.menu.selected # NoConnection
  /\ main.menu.confirmed = "yes"
  /\ main.menu.calls =
       <<EndedWith(DeleteCall(main.menu.selected.id), "failed")>>
  /\ main.menu.caught = "Error deleting connection"
  /\ main.menu.selected.id \in Ids(registry)
  /\ main.menu.currentConnection = NoConnection

====

